---- MODULE Spec2Model ----
(***************************************************************************)
(* Model of the Bank Account Simulator: the core (src/src/bank_account.py) *)
(* and its two shells, the CLI (src/src/app.py) and the GUI (gui.py).      *)
(*                                                                         *)
(* Amounts are Python floats in the source; the model takes them from the  *)
(* exact integers (whole currency units), so + - < <= are exact.  The      *)
(* non-finite floats (nan, inf) and rounding are outside the model.        *)
(*                                                                         *)
(* A BankAccount keeps a Python list of dict objects.  The dicts live in   *)
(* the heap `txns`; `history` (the list self._transaction_history) and     *)
(* `returned` (the list handed out by get_transaction_history) hold        *)
(* references into that heap.                                              *)
(***************************************************************************)
EXTENDS Integers, Sequences, FiniteSets, TLC

\* ---- bounds of the model ------------------------------------------------
MaxAmount == 2      \* deposit / withdraw arguments range over -1..MaxAmount
MaxInitial == 1     \* initial_balance ranges over -1..MaxInitial
MaxLimit == 1       \* overdraft_limit argument ranges over -1..MaxLimit
MaxHist == 3        \* calls to deposit / withdraw stop at this history length
MaxClock == 1       \* the wall clock ticks at most this many times
MaxBalance == 3     \* a caller of the stateless functions keeps no balance above this

Amounts == -1..MaxAmount
CallerValues == {0}     \* what a caller writes into a returned entry
InitialBalances == -1..MaxInitial
Limits == -1..MaxLimit

None == "None"

\* ---- state ---------------------------------------------------------------
VARIABLES
    created,        \* TRUE once BankAccount.__init__ has returned normally
    balance,        \* self._balance
    overdraft_limit,\* self._overdraft_limit
    history,        \* self._transaction_history: a list of references
    txns,           \* the heap of transaction dicts, indexed by reference
    clock,          \* datetime.now()
    returned,       \* the list the caller got from get_transaction_history
    last,           \* the latest call: operation, arguments, outcome
    initial,        \* ghost: the initial_balance the account was created with
    succeeded,      \* ghost: number of deposit/withdraw calls that returned
    current_mode,   \* BankAccountSimulator.current_mode
    sim_balance,    \* BankAccountSimulator.balance: the balance value carried
                    \* by the caller of the stateless functions
    sim_overdraft_limit, \* BankAccountSimulator.overdraft_limit, carried likewise
    pc,             \* "menu" while run() loops, "terminated" once it has ended
    flast,          \* the latest call of a stateless function and its outcome
    clock_stepped_back, \* ghost: the wall clock has been set backwards
    account_status  \* BankAccountSimulatorGUI.account_status_var; None in a
                    \* program without that window

vars == <<created, balance, overdraft_limit, history, txns, clock, returned,
          last, initial, succeeded, current_mode, sim_balance,
          sim_overdraft_limit, pc, flast, clock_stepped_back, account_status>>

acct == <<created, balance, overdraft_limit, history, txns>>

\* What lies outside the BankAccount object and the caller of its methods.
outside == <<current_mode, sim_balance, sim_overdraft_limit, pc, flast,
             clock_stepped_back, account_status>>

\* ---- helpers -------------------------------------------------------------
max(a, b) == IF b > a THEN b ELSE a

\* The outcome of a call that returned a value.
Returned(op, amount, value) ==
    [op |-> op, amount |-> amount, limit |-> None, outcome |-> "ok",
     ret |-> value, msg |-> None]

\* The outcome of a call that raised ValueError(msg).
Raised(op, amount, msg) ==
    [op |-> op, amount |-> amount, limit |-> None, outcome |-> "ValueError",
     ret |-> None, msg |-> msg]

\* Mutant: the balance is recorded before the caller updated it.
TransactionStaleBalance(transaction_type, amount, bal) ==
    [type |-> transaction_type, amount |-> amount, timestamp |-> clock,
     resulting_balance |-> IF transaction_type = "withdrawal"
                           THEN bal + amount ELSE bal - amount]

\* Mutant: the resulting balance is stored as the amount.
TransactionAmountIsBalance(transaction_type, amount, bal) ==
    [type |-> transaction_type, amount |-> bal, timestamp |-> clock,
     resulting_balance |-> bal]

\* The dict built by _record_transaction; bal is self._balance at that moment.
Transaction(transaction_type, amount, bal) ==
    [type |-> transaction_type, amount |-> amount, timestamp |-> clock,
     resulting_balance |-> bal]

\* Mutant: the new entry is inserted at the front of the list.
RecordTransactionInsertsFirst(transaction_type, amount, bal) ==
    /\ txns' = Append(txns, Transaction(transaction_type, amount, bal))
    /\ history' = <<Len(txns) + 1>> \o history

\* _record_transaction: allocate the dict, append a reference to it.
RecordTransaction(transaction_type, amount, bal) ==
    /\ txns' = Append(txns, Transaction(transaction_type, amount, bal))
    /\ history' = Append(history, Len(txns) + 1)

\* Mutant: zero is accepted.
AmountRejectedOnlyNegative(amount) == amount < 0

\* The validation of deposit and withdraw: the amount is rejected.
AmountRejected(amount) == amount <= 0

\* Mutant: the amount is left out of the check.
OverdraftRejectedIgnoresAmount(bal, amount, limit) == bal < -limit

\* Mutant: a resulting balance of exactly -limit is rejected too.
OverdraftRejectedAtLimit(bal, amount, limit) == bal - amount <= -limit

\* Mutant: the amount is added instead of subtracted.
OverdraftRejectedAddsAmount(bal, amount, limit) == bal + amount < -limit

\* The overdraft check of withdraw: the withdrawal is rejected.
OverdraftRejected(bal, amount, limit) == bal - amount < -limit

\* The account's history as a reader sees it: each reference dereferenced.
HistoryView == [i \in 1..Len(history) |-> txns[history[i]]]

\* list.copy(): a new list holding the same references.
ListCopy(list) == [i \in 1..Len(list) |-> list[i]]

\* ---- operations ----------------------------------------------------------
\* A call of a stateless function that returned a value.
FnReturned(op, bal, amount, limit, value) ==
    [op |-> op, balance |-> bal, amount |-> amount, limit |-> limit,
     outcome |-> "ok", ret |-> value, msg |-> None]

\* A call of a stateless function that raised ValueError(msg).
FnRaised(op, bal, amount, limit, msg) ==
    [op |-> op, balance |-> bal, amount |-> amount, limit |-> limit,
     outcome |-> "ValueError", ret |-> None, msg |-> msg]

Init ==
    /\ created = FALSE
    /\ balance = 0
    /\ overdraft_limit = 0
    /\ history = <<>>
    /\ txns = <<>>
    /\ clock = 0
    /\ returned = <<>>
    /\ last = Returned("none", 0, None)
    /\ initial = 0
    /\ succeeded = 0
    /\ current_mode = "stateful"
    /\ sim_balance = 0
    /\ sim_overdraft_limit = 0
    /\ pc = "menu"
    /\ flast = FnReturned("none", 0, 0, 0, None)
    /\ clock_stepped_back = FALSE
    /\ account_status = None

\* Mutant: the initial deposit is recorded for a zero balance as well.
BankAccountInitRecordsZero(initial_balance, limit) ==
    IF initial_balance < 0
    THEN /\ last' = [Raised("create", initial_balance,
                            "Initial balance cannot be negative")
                     EXCEPT !.limit = limit]
         /\ UNCHANGED <<acct, initial, succeeded>>
    ELSE /\ created' = TRUE
         /\ balance' = initial_balance
         /\ overdraft_limit' = max(0, limit)
         /\ txns' = <<Transaction("initial deposit", initial_balance,
                                  initial_balance)>>
         /\ history' = <<1>>
         /\ initial' = initial_balance
         /\ succeeded' = 0
         /\ last' = [Returned("create", initial_balance, None)
                     EXCEPT !.limit = limit]

\* Mutant: a negative overdraft limit is stored as given.
BankAccountInitNoClamp(initial_balance, limit) ==
    IF initial_balance < 0
    THEN /\ last' = [Raised("create", initial_balance,
                            "Initial balance cannot be negative")
                     EXCEPT !.limit = limit]
         /\ UNCHANGED <<acct, initial, succeeded>>
    ELSE /\ created' = TRUE
         /\ balance' = initial_balance
         /\ overdraft_limit' = limit
         /\ IF initial_balance > 0
            THEN /\ txns' = <<Transaction("initial deposit", initial_balance,
                                          initial_balance)>>
                 /\ history' = <<1>>
            ELSE /\ txns' = <<>>
                 /\ history' = <<>>
         /\ initial' = initial_balance
         /\ succeeded' = 0
         /\ last' = [Returned("create", initial_balance, None)
                     EXCEPT !.limit = limit]

\* BankAccount.__init__(initial_balance, overdraft_limit): a new object with
\* an empty list of its own; when it raises, no object comes into being and
\* whatever the caller had stays as it was.
BankAccountInit(initial_balance, limit) ==
    IF initial_balance < 0
    THEN /\ last' = [Raised("create", initial_balance,
                            "Initial balance cannot be negative")
                     EXCEPT !.limit = limit]
         /\ UNCHANGED <<acct, initial, succeeded>>
    ELSE /\ created' = TRUE
         /\ balance' = initial_balance
         /\ overdraft_limit' = max(0, limit)
         /\ IF initial_balance > 0
            THEN /\ txns' = <<Transaction("initial deposit", initial_balance,
                                          initial_balance)>>
                 /\ history' = <<1>>
            ELSE /\ txns' = <<>>
                 /\ history' = <<>>
         /\ initial' = initial_balance
         /\ succeeded' = 0
         /\ last' = [Returned("create", initial_balance, None)
                     EXCEPT !.limit = limit]

\* A BankAccount is constructed.
Create ==
    /\ ~created
    /\ \E initial_balance \in InitialBalances, limit \in Limits :
        BankAccountInit(initial_balance, limit)
    /\ UNCHANGED <<clock, returned, outside>>

\* Mutant: a withdrawal into the overdraft uses the limit up.
WithdrawCallConsumesLimit(amount) ==
    IF AmountRejected(amount)
    THEN /\ last' = Raised("withdraw", amount,
                           "Withdrawal amount must be positive")
         /\ UNCHANGED <<acct, initial, succeeded>>
    ELSE IF OverdraftRejected(balance, amount, overdraft_limit)
    THEN /\ last' = Raised("withdraw", amount,
                           "Withdrawal would exceed overdraft limit")
         /\ UNCHANGED <<acct, initial, succeeded>>
    ELSE /\ balance' = balance - amount
         /\ overdraft_limit' = IF balance - amount < 0
                               THEN overdraft_limit + (balance - amount)
                               ELSE overdraft_limit
         /\ RecordTransaction("withdrawal", amount, balance - amount)
         /\ succeeded' = succeeded + 1
         /\ last' = Returned("withdraw", amount, balance - amount)
         /\ UNCHANGED <<created, initial>>

\* Mutant: a deposit credits the amount twice.
DepositCallCreditsTwice(amount) ==
    IF AmountRejected(amount)
    THEN /\ last' = Raised("deposit", amount, "Deposit amount must be positive")
         /\ UNCHANGED <<acct, initial, succeeded>>
    ELSE /\ balance' = balance + amount + amount
         /\ RecordTransaction("deposit", amount, balance + amount + amount)
         /\ succeeded' = succeeded + 1
         /\ last' = Returned("deposit", amount, balance + amount + amount)
         /\ UNCHANGED <<created, overdraft_limit, initial>>

\* Mutant: the first entry a deposit records is typed "initial deposit".
DepositCallFirstIsInitial(amount) ==
    IF AmountRejected(amount)
    THEN /\ last' = Raised("deposit", amount, "Deposit amount must be positive")
         /\ UNCHANGED <<acct, initial, succeeded>>
    ELSE /\ balance' = balance + amount
         /\ RecordTransaction(IF Len(history) = 0 THEN "initial deposit"
                               ELSE "deposit", amount, balance + amount)
         /\ succeeded' = succeeded + 1
         /\ last' = Returned("deposit", amount, balance + amount)
         /\ UNCHANGED <<created, overdraft_limit, initial>>

\* BankAccount.deposit(amount)
DepositCall(amount) ==
    IF AmountRejected(amount)
    THEN /\ last' = Raised("deposit", amount, "Deposit amount must be positive")
         /\ UNCHANGED <<acct, initial, succeeded>>
    ELSE /\ balance' = balance + amount
         /\ RecordTransaction("deposit", amount, balance + amount)
         /\ succeeded' = succeeded + 1
         /\ last' = Returned("deposit", amount, balance + amount)
         /\ UNCHANGED <<created, overdraft_limit, initial>>

\* BankAccount.withdraw(amount)
WithdrawCall(amount) ==
    IF AmountRejected(amount)
    THEN /\ last' = Raised("withdraw", amount,
                           "Withdrawal amount must be positive")
         /\ UNCHANGED <<acct, initial, succeeded>>
    ELSE IF OverdraftRejected(balance, amount, overdraft_limit)
    THEN /\ last' = Raised("withdraw", amount,
                           "Withdrawal would exceed overdraft limit")
         /\ UNCHANGED <<acct, initial, succeeded>>
    ELSE /\ balance' = balance - amount
         /\ RecordTransaction("withdrawal", amount, balance - amount)
         /\ succeeded' = succeeded + 1
         /\ last' = Returned("withdraw", amount, balance - amount)
         /\ UNCHANGED <<created, overdraft_limit, initial>>

\* A caller deposits into the account.
Deposit ==
    /\ created
    /\ Len(history) < MaxHist
    /\ \E amount \in Amounts : DepositCall(amount)
    /\ UNCHANGED <<clock, returned, outside>>

\* A caller withdraws from the account.
Withdraw ==
    /\ created
    /\ Len(history) < MaxHist
    /\ \E amount \in Amounts : WithdrawCall(amount)
    /\ UNCHANGED <<clock, returned, outside>>

\* BankAccount.get_balance()
GetBalance ==
    /\ created
    /\ last' = Returned("get_balance", 0, balance)
    /\ UNCHANGED <<acct, clock, returned, initial, succeeded, outside>>

\* Mutant: the internal list is handed out and replaced by an empty one.
GetTransactionHistoryDrains ==
    /\ created
    /\ returned' = ListCopy(history)
    /\ history' = <<>>
    /\ last' = Returned("get_transaction_history", 0, None)
    /\ UNCHANGED <<created, balance, overdraft_limit, txns, clock, initial,
                   succeeded, outside>>

\* BankAccount.get_transaction_history()
GetTransactionHistory ==
    /\ created
    /\ returned' = ListCopy(history)
    /\ last' = Returned("get_transaction_history", 0, None)
    /\ UNCHANGED <<acct, clock, initial, succeeded, outside>>

\* Mutant: the initial deposit is not counted.
TransactionCountSkipsInitial ==
    /\ created
    /\ last' = Returned("transaction_count", 0,
                        Len(history) - (IF initial > 0 THEN 1 ELSE 0))
    /\ UNCHANGED <<acct, clock, returned, initial, succeeded, outside>>

\* BankAccount.transaction_count()
TransactionCount ==
    /\ created
    /\ last' = Returned("transaction_count", 0, Len(history))
    /\ UNCHANGED <<acct, clock, returned, initial, succeeded, outside>>

\* Time passes between two calls: datetime.now() reads a later instant.
Tick ==
    /\ clock < MaxClock
    /\ clock' = clock + 1
    /\ UNCHANGED <<acct, returned, last, initial, succeeded, outside>>

\* The host's wall clock is set backwards (an adjustment of the system time,
\* the end of daylight saving time): datetime.now() reads an earlier instant.
ClockStepBack ==
    /\ clock > 0
    /\ clock' = clock - 1
    /\ clock_stepped_back' = TRUE
    /\ UNCHANGED <<acct, returned, last, initial, succeeded, current_mode,
                   sim_balance, sim_overdraft_limit, pc, flast,
                   account_status>>

\* ---- a caller that mutates what get_transaction_history gave it ----------
\* del lst[-1] on the returned list
CallerRemove ==
    /\ returned /= <<>>
    /\ returned' = SubSeq(returned, 1, Len(returned) - 1)
    /\ last' = Returned("caller_remove", 0, None)
    /\ UNCHANGED <<acct, clock, initial, succeeded, outside>>

\* lst.append(lst[i]) on the returned list
CallerAppend ==
    /\ returned /= <<>>
    /\ Len(returned) < MaxHist
    /\ \E i \in 1..Len(returned) :
        returned' = Append(returned, returned[i])
    /\ last' = Returned("caller_append", 0, None)
    /\ UNCHANGED <<acct, clock, initial, succeeded, outside>>

\* lst[i]["amount"] = v on an entry of the returned list
CallerSetAmount ==
    /\ \E i \in 1..Len(returned), v \in CallerValues :
        /\ txns' = [txns EXCEPT ![returned[i]].amount = v]
        /\ last' = Returned("caller_set_amount", v, None)
    /\ UNCHANGED <<created, balance, overdraft_limit, history, clock, returned,
                   initial, succeeded, outside>>

AccountOp ==
    \/ Create
    \/ Deposit
    \/ Withdraw
    \/ GetBalance
    \/ GetTransactionHistory
    \/ TransactionCount

Next ==
    \/ AccountOp
    \/ Tick

Spec == Init /\ [][Next]_vars

\* The account on a host whose wall clock may also be set backwards.
NextWallClock ==
    \/ Create
    \/ Deposit
    \/ Withdraw
    \/ Tick
    \/ ClockStepBack

SpecWallClock == Init /\ [][NextWallClock]_vars

NextCaller ==
    \/ AccountOp
    \/ CallerRemove
    \/ CallerAppend
    \/ CallerSetAmount

SpecCaller == Init /\ [][NextCaller]_vars

\* ---- the stateless functions -------------------------------------------
\* Mutant: the amount is subtracted.
depositSubtracts(bal, amount) ==
    IF amount <= 0
    THEN FnRaised("fn_deposit", bal, amount, None,
                  "Deposit amount must be positive")
    ELSE FnReturned("fn_deposit", bal, amount, None, bal - amount)

\* deposit(balance, amount)
deposit(bal, amount) ==
    IF amount <= 0
    THEN FnRaised("fn_deposit", bal, amount, None,
                  "Deposit amount must be positive")
    ELSE FnReturned("fn_deposit", bal, amount, None, bal + amount)

\* Mutant: the balance before the withdrawal is compared with the limit.
withdrawChecksOldBalance(bal, amount, limit) ==
    IF amount <= 0
    THEN FnRaised("fn_withdraw", bal, amount, limit,
                  "Withdrawal amount must be positive")
    ELSE IF bal < -limit
    THEN FnRaised("fn_withdraw", bal, amount, limit,
                  "Withdrawal would exceed overdraft limit")
    ELSE FnReturned("fn_withdraw", bal, amount, limit, bal - amount)

\* Mutant: a resulting balance of exactly -limit is rejected.
withdrawAtLimit(bal, amount, limit) ==
    IF amount <= 0
    THEN FnRaised("fn_withdraw", bal, amount, limit,
                  "Withdrawal amount must be positive")
    ELSE IF bal - amount <= -limit
    THEN FnRaised("fn_withdraw", bal, amount, limit,
                  "Withdrawal would exceed overdraft limit")
    ELSE FnReturned("fn_withdraw", bal, amount, limit, bal - amount)

\* withdraw(balance, amount, overdraft_limit)
withdraw(bal, amount, limit) ==
    IF amount <= 0
    THEN FnRaised("fn_withdraw", bal, amount, limit,
                  "Withdrawal amount must be positive")
    ELSE IF bal - amount < -limit
    THEN FnRaised("fn_withdraw", bal, amount, limit,
                  "Withdrawal would exceed overdraft limit")
    ELSE FnReturned("fn_withdraw", bal, amount, limit, bal - amount)

\* The default of withdraw's overdraft_limit parameter.
DefaultOverdraftLimit == 0

\* withdraw(balance, amount): the limit is omitted.
withdraw_default(bal, amount) ==
    [withdraw(bal, amount, DefaultOverdraftLimit) EXCEPT !.op = "fn_withdraw_default"]

\* get_balance(balance)
get_balance(bal) == FnReturned("fn_get_balance", bal, 0, None, bal)

\* ---- a caller of the stateless functions ---------------------------------
\* The caller holds a balance and an overdraft limit and passes them in.
InitPure ==
    /\ created = FALSE
    /\ balance = 0
    /\ overdraft_limit = 0
    /\ history = <<>>
    /\ txns = <<>>
    /\ clock = 0
    /\ returned = <<>>
    /\ last = Returned("none", 0, None)
    /\ initial = 0
    /\ succeeded = 0
    /\ current_mode = "stateless"
    /\ sim_balance \in -MaxLimit..MaxInitial
    /\ sim_overdraft_limit \in Limits
    /\ pc = "menu"
    /\ flast = FnReturned("none", 0, 0, 0, None)
    /\ clock_stepped_back = FALSE
    /\ account_status = None

\* What a call of a stateless function leaves alone: everything but flast.
pure_frame == <<acct, clock, returned, last, initial, succeeded, current_mode,
                sim_balance, sim_overdraft_limit, pc, clock_stepped_back, account_status>>

FnDeposit ==
    /\ \E amount \in Amounts : flast' = deposit(sim_balance, amount)
    /\ UNCHANGED pure_frame

FnWithdraw ==
    /\ \E amount \in Amounts :
        flast' = withdraw(sim_balance, amount, sim_overdraft_limit)
    /\ UNCHANGED pure_frame

FnWithdrawDefault ==
    /\ \E amount \in Amounts : flast' = withdraw_default(sim_balance, amount)
    /\ UNCHANGED pure_frame

FnGetBalance ==
    /\ flast' = get_balance(sim_balance)
    /\ UNCHANGED pure_frame

\* The caller keeps the value a call returned as its balance, as in
\* self.balance = deposit(self.balance, amount).
FnKeepResult ==
    /\ flast.op \in {"fn_deposit", "fn_withdraw", "fn_withdraw_default"}
    /\ flast.outcome = "ok"
    /\ flast.balance = sim_balance
    /\ flast.ret <= MaxBalance
    /\ sim_balance' = flast.ret
    /\ UNCHANGED <<acct, clock, returned, last, initial, succeeded, current_mode,
                   sim_overdraft_limit, pc, flast, clock_stepped_back, account_status>>

NextPure ==
    \/ FnDeposit
    \/ FnWithdraw
    \/ FnWithdrawDefault
    \/ FnGetBalance
    \/ FnKeepResult

SpecPure == InitPure /\ [][NextPure]_vars

\* ---- the account and the stateless functions side by side ----------------
\* Both start from the balance and the overdraft limit of the new account.
EquivCreate ==
    /\ ~created
    /\ \E initial_balance \in InitialBalances, limit \in Limits :
        BankAccountInit(initial_balance, limit)
    /\ sim_balance' = balance'
    /\ sim_overdraft_limit' = overdraft_limit'
    /\ UNCHANGED <<clock, returned, current_mode, pc, flast, clock_stepped_back, account_status>>

\* The same amount is deposited on both sides; the caller of the stateless
\* function keeps the returned balance, or its old one when the call raised.
EquivDeposit ==
    /\ created
    /\ Len(history) < MaxHist
    /\ \E amount \in Amounts :
        /\ DepositCall(amount)
        /\ flast' = deposit(sim_balance, amount)
    /\ sim_balance' = IF flast'.outcome = "ok" THEN flast'.ret ELSE sim_balance
    /\ UNCHANGED <<clock, returned, current_mode, sim_overdraft_limit, pc,
                   clock_stepped_back, account_status>>

\* The same amount is withdrawn on both sides.
EquivWithdraw ==
    /\ created
    /\ Len(history) < MaxHist
    /\ \E amount \in Amounts :
        /\ WithdrawCall(amount)
        /\ flast' = withdraw(sim_balance, amount, sim_overdraft_limit)
    /\ sim_balance' = IF flast'.outcome = "ok" THEN flast'.ret ELSE sim_balance
    /\ UNCHANGED <<clock, returned, current_mode, sim_overdraft_limit, pc,
                   clock_stepped_back, account_status>>

NextEquiv ==
    \/ EquivCreate
    \/ EquivDeposit
    \/ EquivWithdraw

SpecEquiv == Init /\ [][NextEquiv]_vars

\* ---- the command-line shell (BankAccountSimulator) ------------------------
\* self.account is the BankAccount of the variables above (None while
\* ~created); a BankAccount object is always truthy.  float(input()) yields
\* the number typed.  Under the shell, `last` and `flast` hold the call the
\* latest handler made on the account and of a stateless function, NoCall /
\* FnNoCall when it made none; the handlers catch the ValueErrors of the core
\* and change nothing then.  One account of the shell takes deposits and
\* withdrawals up to a history of MaxHist - 1 entries, balances up to
\* MaxBalance.
NoCall == Returned("none", 0, None)
FnNoCall == FnReturned("none", 0, 0, 0, None)

\* The program is the GUI of gui.py: it has the window with
\* account_status_var. Otherwise it is the CLI of app.py.
IsGui == account_status /= None

\* What a handler leaves behind when _check_account_exists() has told the
\* user to create an account first and the handler has returned without
\* calling the core.
Refused == [NoCall EXCEPT !.msg = "Please create an account first"]

\* Mutant: the check lets every handler through.
CheckAccountExistsAlways == TRUE

\* _check_account_exists()
CheckAccountExists == ~(current_mode = "stateful" /\ ~created)

\* create_account()
ShellCreateAccount ==
    /\ ~IsGui
    /\ pc = "menu"
    /\ \E initial_balance \in InitialBalances, limit \in Limits :
        IF current_mode = "stateful"
        THEN /\ BankAccountInit(initial_balance, limit)
             /\ UNCHANGED <<sim_balance, sim_overdraft_limit>>
        ELSE /\ sim_balance' = initial_balance
             /\ sim_overdraft_limit' = limit
             /\ last' = NoCall
             /\ UNCHANGED <<acct, initial, succeeded>>
    /\ flast' = FnNoCall
    /\ UNCHANGED <<clock, returned, current_mode, pc, clock_stepped_back, account_status>>

\* make_deposit()
ShellMakeDeposit ==
    /\ ~IsGui
    /\ pc = "menu"
    /\ IF ~CheckAccountExists
       THEN /\ last' = Refused
            /\ flast' = FnNoCall
            /\ UNCHANGED <<acct, initial, succeeded, sim_balance>>
       ELSE \E amount \in Amounts :
            IF current_mode = "stateful"
            THEN /\ Len(history) < MaxHist - 1
                 /\ balance < MaxBalance
                 /\ DepositCall(amount)
                 /\ flast' = FnNoCall
                 /\ UNCHANGED sim_balance
            ELSE /\ sim_balance < MaxBalance
                 /\ flast' = deposit(sim_balance, amount)
                 /\ sim_balance' = IF flast'.outcome = "ok" THEN flast'.ret
                                   ELSE sim_balance
                 /\ last' = NoCall
                 /\ UNCHANGED <<acct, initial, succeeded>>
    /\ UNCHANGED <<clock, returned, current_mode, sim_overdraft_limit, pc,
                   clock_stepped_back, account_status>>

\* Mutant: the carried balance is debited before the function has accepted
\* the withdrawal.
ShellMakeWithdrawalDebitsAnyway ==
    /\ ~IsGui
    /\ pc = "menu"
    /\ IF ~CheckAccountExists
       THEN /\ last' = Refused
            /\ flast' = FnNoCall
            /\ UNCHANGED <<acct, initial, succeeded, sim_balance>>
       ELSE \E amount \in Amounts :
            IF current_mode = "stateful"
            THEN /\ Len(history) < MaxHist - 1
                 /\ WithdrawCall(amount)
                 /\ flast' = FnNoCall
                 /\ UNCHANGED sim_balance
            ELSE /\ flast' = withdraw(sim_balance, amount, sim_overdraft_limit)
                 /\ sim_balance' = sim_balance - amount
                 /\ last' = NoCall
                 /\ UNCHANGED <<acct, initial, succeeded>>
    /\ UNCHANGED <<clock, returned, current_mode, sim_overdraft_limit, pc,
                   clock_stepped_back, account_status>>

\* make_withdrawal()
ShellMakeWithdrawal ==
    /\ ~IsGui
    /\ pc = "menu"
    /\ IF ~CheckAccountExists
       THEN /\ last' = Refused
            /\ flast' = FnNoCall
            /\ UNCHANGED <<acct, initial, succeeded, sim_balance>>
       ELSE \E amount \in Amounts :
            IF current_mode = "stateful"
            THEN /\ Len(history) < MaxHist - 1
                 /\ WithdrawCall(amount)
                 /\ flast' = FnNoCall
                 /\ UNCHANGED sim_balance
            ELSE /\ flast' = withdraw(sim_balance, amount, sim_overdraft_limit)
                 /\ sim_balance' = IF flast'.outcome = "ok" THEN flast'.ret
                                   ELSE sim_balance
                 /\ last' = NoCall
                 /\ UNCHANGED <<acct, initial, succeeded>>
    /\ UNCHANGED <<clock, returned, current_mode, sim_overdraft_limit, pc,
                   clock_stepped_back, account_status>>

\* check_balance()
ShellCheckBalance ==
    /\ ~IsGui
    /\ pc = "menu"
    /\ IF ~CheckAccountExists
       THEN last' = Refused /\ flast' = FnNoCall
       ELSE IF current_mode = "stateful"
       THEN last' = Returned("get_balance", 0, balance) /\ flast' = FnNoCall
       ELSE flast' = get_balance(sim_balance) /\ last' = NoCall
    /\ UNCHANGED <<acct, clock, returned, initial, succeeded, current_mode,
                   sim_balance, sim_overdraft_limit, pc, clock_stepped_back, account_status>>

\* view_transaction_history(): the copy it gets is a local of the handler.
ShellViewTransactionHistory ==
    /\ ~IsGui
    /\ pc = "menu"
    /\ IF current_mode /= "stateful"
       THEN last' = NoCall
       ELSE IF ~CheckAccountExists
       THEN last' = Refused
       ELSE last' = Returned("get_transaction_history", 0, None)
    /\ flast' = FnNoCall
    /\ UNCHANGED <<acct, clock, returned, initial, succeeded, current_mode,
                   sim_balance, sim_overdraft_limit, pc, clock_stepped_back, account_status>>

\* Mutant: the balance of the account is not carried over.
SwitchModeKeepsOldBalance ==
    /\ ~IsGui
    /\ pc = "menu"
    /\ IF current_mode = "stateful"
       THEN /\ last' = NoCall
            /\ current_mode' = "stateless"
            /\ UNCHANGED <<acct, initial, succeeded, sim_balance, pc>>
       ELSE /\ BankAccountInit(sim_balance, sim_overdraft_limit)
            /\ IF last'.outcome = "ok"
               THEN current_mode' = "stateful" /\ pc' = pc
               ELSE current_mode' = current_mode /\ pc' = "terminated"
            /\ UNCHANGED sim_balance
    /\ flast' = FnNoCall
    /\ UNCHANGED <<clock, returned, sim_overdraft_limit, clock_stepped_back, account_status>>

\* switch_mode(): the ValueError of BankAccount(...) is caught neither here
\* nor in run(), so it ends the program.
SwitchMode ==
    /\ ~IsGui
    /\ pc = "menu"
    /\ IF current_mode = "stateful"
       THEN /\ IF created
               THEN /\ sim_balance' = balance
                    /\ last' = Returned("get_balance", 0, balance)
               ELSE /\ sim_balance' = sim_balance
                    /\ last' = NoCall
            /\ current_mode' = "stateless"
            /\ UNCHANGED <<acct, initial, succeeded, pc>>
       ELSE /\ BankAccountInit(sim_balance, sim_overdraft_limit)
            /\ IF last'.outcome = "ok"
               THEN current_mode' = "stateful" /\ pc' = pc
               ELSE current_mode' = current_mode /\ pc' = "terminated"
            /\ UNCHANGED sim_balance
    /\ flast' = FnNoCall
    /\ UNCHANGED <<clock, returned, sim_overdraft_limit, clock_stepped_back, account_status>>

\* exit_program()
ExitProgram ==
    /\ ~IsGui
    /\ pc = "menu"
    /\ pc' = "terminated"
    /\ last' = NoCall
    /\ flast' = FnNoCall
    /\ UNCHANGED <<acct, clock, returned, initial, succeeded, current_mode,
                   sim_balance, sim_overdraft_limit, clock_stepped_back, account_status>>

\* run(): one pass of the menu loop.
NextShell ==
    \/ ShellCreateAccount
    \/ ShellMakeDeposit
    \/ ShellMakeWithdrawal
    \/ ShellCheckBalance
    \/ ShellViewTransactionHistory
    \/ SwitchMode
    \/ ExitProgram

SpecShell == Init /\ [][NextShell]_vars

\* ---- The GUI shell (gui.py) ----------------------------------------------
\* Window contents (status line, message boxes, the tab shown) are output and
\* are not state of the model, except account_status_var, which the GUI reads
\* back in _check_account_exists. Text that float() cannot parse raises a
\* ValueError inside the handler's try block before any call, like the
\* rejected inputs modelled here. _update_balance_display reads the balance
\* of the account only behind its own "and self.account" test.

\* BankAccountSimulatorGUI.__init__ and _create_ui
InitGui ==
    /\ created = FALSE
    /\ balance = 0
    /\ overdraft_limit = 0
    /\ history = <<>>
    /\ txns = <<>>
    /\ clock = 0
    /\ returned = <<>>
    /\ last = NoCall
    /\ initial = 0
    /\ succeeded = 0
    /\ current_mode = "stateful"
    /\ sim_balance = 0
    /\ sim_overdraft_limit = 0
    /\ pc = "menu"
    /\ flast = FnNoCall
    /\ clock_stepped_back = FALSE
    /\ account_status = "No account created"

\* _check_account_exists()
GuiCheckAccountExists ==
    ~(\/ current_mode = "stateful" /\ ~created
      \/ current_mode = "stateless" /\ account_status /= "Account active")

\* _create_account(): the GUI validates both numbers itself.
GuiCreateAccount ==
    /\ IsGui
    /\ pc = "menu"
    /\ \E initial_balance \in InitialBalances, limit \in Limits :
        IF initial_balance < 0 \/ limit < 0
        THEN /\ last' = NoCall
             /\ UNCHANGED <<acct, initial, succeeded, sim_balance,
                            sim_overdraft_limit, account_status>>
        ELSE /\ IF current_mode = "stateful"
                THEN /\ BankAccountInit(initial_balance, limit)
                     /\ UNCHANGED <<sim_balance, sim_overdraft_limit>>
                ELSE /\ sim_balance' = initial_balance
                     /\ sim_overdraft_limit' = limit
                     /\ last' = NoCall
                     /\ UNCHANGED <<acct, initial, succeeded>>
             /\ account_status' = "Account active"
    /\ flast' = FnNoCall
    /\ UNCHANGED <<clock, returned, current_mode, pc, clock_stepped_back>>

\* _make_deposit()
GuiMakeDeposit ==
    /\ IsGui
    /\ pc = "menu"
    /\ IF ~GuiCheckAccountExists
       THEN /\ last' = Refused
            /\ flast' = FnNoCall
            /\ UNCHANGED <<acct, initial, succeeded, sim_balance>>
       ELSE \E amount \in Amounts :
            IF current_mode = "stateful"
            THEN /\ Len(history) < MaxHist - 1
                 /\ balance < MaxBalance
                 /\ DepositCall(amount)
                 /\ flast' = FnNoCall
                 /\ UNCHANGED sim_balance
            ELSE /\ sim_balance < MaxBalance
                 /\ flast' = deposit(sim_balance, amount)
                 /\ sim_balance' = IF flast'.outcome = "ok" THEN flast'.ret
                                   ELSE sim_balance
                 /\ last' = NoCall
                 /\ UNCHANGED <<acct, initial, succeeded>>
    /\ UNCHANGED <<clock, returned, current_mode, sim_overdraft_limit, pc,
                   clock_stepped_back, account_status>>

\* _make_withdrawal()
GuiMakeWithdrawal ==
    /\ IsGui
    /\ pc = "menu"
    /\ IF ~GuiCheckAccountExists
       THEN /\ last' = Refused
            /\ flast' = FnNoCall
            /\ UNCHANGED <<acct, initial, succeeded, sim_balance>>
       ELSE \E amount \in Amounts :
            IF current_mode = "stateful"
            THEN /\ Len(history) < MaxHist - 1
                 /\ WithdrawCall(amount)
                 /\ flast' = FnNoCall
                 /\ UNCHANGED sim_balance
            ELSE /\ flast' = withdraw(sim_balance, amount, sim_overdraft_limit)
                 /\ sim_balance' = IF flast'.outcome = "ok" THEN flast'.ret
                                   ELSE sim_balance
                 /\ last' = NoCall
                 /\ UNCHANGED <<acct, initial, succeeded>>
    /\ UNCHANGED <<clock, returned, current_mode, sim_overdraft_limit, pc,
                   clock_stepped_back, account_status>>

\* _check_balance()
GuiCheckBalance ==
    /\ IsGui
    /\ pc = "menu"
    /\ IF ~GuiCheckAccountExists
       THEN last' = Refused /\ flast' = FnNoCall
       ELSE IF current_mode = "stateful"
       THEN last' = Returned("get_balance", 0, balance) /\ flast' = FnNoCall
       ELSE flast' = get_balance(sim_balance) /\ last' = NoCall
    /\ UNCHANGED <<acct, clock, returned, initial, succeeded, current_mode,
                   sim_balance, sim_overdraft_limit, pc, clock_stepped_back,
                   account_status>>

\* _refresh_history()
GuiRefreshHistory ==
    /\ IsGui
    /\ pc = "menu"
    /\ IF current_mode /= "stateful"
       THEN last' = NoCall
       ELSE IF ~GuiCheckAccountExists
       THEN last' = Refused
       ELSE last' = Returned("get_transaction_history", 0, None)
    /\ flast' = FnNoCall
    /\ UNCHANGED <<acct, clock, returned, initial, succeeded, current_mode,
                   sim_balance, sim_overdraft_limit, pc, clock_stepped_back,
                   account_status>>

\* _switch_mode(): new_mode is the radio button selected. The ValueError of
\* BankAccount(...) leaves the callback before current_mode is assigned; the
\* Tk main loop reports it and goes on.
GuiSwitchMode ==
    /\ IsGui
    /\ pc = "menu"
    /\ \E new_mode \in {"stateful", "stateless"} :
        IF new_mode = current_mode
        THEN /\ last' = NoCall
             /\ UNCHANGED <<acct, initial, succeeded, sim_balance,
                            current_mode>>
        ELSE IF GuiCheckAccountExists
        THEN IF current_mode = "stateful"
             THEN /\ sim_balance' = balance
                  /\ last' = Returned("get_balance", 0, balance)
                  /\ current_mode' = new_mode
                  /\ UNCHANGED <<acct, initial, succeeded>>
             ELSE /\ BankAccountInit(sim_balance, sim_overdraft_limit)
                  /\ current_mode' = IF last'.outcome = "ok" THEN new_mode
                                     ELSE current_mode
                  /\ UNCHANGED sim_balance
        ELSE /\ last' = NoCall
             /\ current_mode' = new_mode
             /\ UNCHANGED <<acct, initial, succeeded, sim_balance>>
    /\ flast' = FnNoCall
    /\ UNCHANGED <<clock, returned, sim_overdraft_limit, pc,
                   clock_stepped_back, account_status>>

\* _exit_program(), confirmed in the dialog.
GuiExitProgram ==
    /\ IsGui
    /\ pc = "menu"
    /\ pc' = "terminated"
    /\ last' = NoCall
    /\ flast' = FnNoCall
    /\ UNCHANGED <<acct, clock, returned, initial, succeeded, current_mode,
                   sim_balance, sim_overdraft_limit, clock_stepped_back,
                   account_status>>

\* root.mainloop(): one callback.
NextGui ==
    \/ GuiCreateAccount
    \/ GuiMakeDeposit
    \/ GuiMakeWithdrawal
    \/ GuiCheckBalance
    \/ GuiRefreshHistory
    \/ GuiSwitchMode
    \/ GuiExitProgram

\* Either program: the CLI of app.py or the GUI of gui.py.
NextShells ==
    \/ NextShell
    \/ NextGui

SpecShells == (Init \/ InitGui) /\ [][NextShells]_vars

\* ---- vocabulary of the properties ----------------------------------------
\* A step that is a call of operation op (every call that changes anything
\* changes `last`; Tick leaves it alone).
CallStep(op) == last' /= last /\ last'.op = op

\* The error kinds of the specification, as the ValueErrors of the code.
InvalidArgument(r) ==
    /\ r.outcome = "ValueError"
    /\ r.msg \in {"Initial balance cannot be negative",
                  "Deposit amount must be positive",
                  "Withdrawal amount must be positive"}

OverdraftExceeded(r) ==
    /\ r.outcome = "ValueError"
    /\ r.msg = "Withdrawal would exceed overdraft limit"

IsPrefix(s, t) ==
    /\ Len(s) <= Len(t)
    /\ \A i \in 1..Len(s) : s[i] = t[i]

LastEntry(h) == h[Len(h)]

\* ---- C1 ------------------------------------------------------------------
\* C1: in every reachable state of the stateful account the balance is at
\* least -overdraft_limit, whatever calls succeeded or failed before.
C1_BalanceAboveLimit == balance >= -overdraft_limit

\* An overdrawn account after a successful withdrawal.
C1_Witness ==
    /\ created /\ balance < 0
    /\ last.op = "withdraw" /\ last.outcome = "ok"

\* ---- C2 ------------------------------------------------------------------
\* C2: a withdraw(amount) with amount > 0 returns normally if and only if
\* balance - amount >= -overdraft_limit; it then lowers the balance by
\* exactly amount and returns the new balance (the resulting balance may be
\* exactly -overdraft_limit).
C2_WithdrawPermittedIff ==
    [][(CallStep("withdraw") /\ last'.amount > 0) =>
         /\ (last'.outcome = "ok") <=> (balance - last'.amount >= -overdraft_limit)
         /\ last'.outcome = "ok" =>
              /\ balance' = balance - last'.amount
              /\ last'.ret = balance']_vars

\* A withdrawal that landed exactly on the limit.
C2_Witness ==
    /\ last.op = "withdraw" /\ last.outcome = "ok" /\ last.amount > 0
    /\ overdraft_limit > 0
    /\ balance = -overdraft_limit

\* ---- C3 ------------------------------------------------------------------
\* C3: a withdraw(amount) with amount > 0 and balance - amount below
\* -overdraft_limit raises the overdraft ValueError and leaves balance and
\* history as they were.
C3_OverdraftRejectedNoChange ==
    [][(/\ CallStep("withdraw")
        /\ last'.amount > 0
        /\ balance - last'.amount < -overdraft_limit) =>
         /\ OverdraftExceeded(last')
         /\ balance' = balance
         /\ history' = history
         /\ HistoryView' = HistoryView]_vars

\* A rejected withdrawal on an account that has a history.
C3_Witness ==
    /\ last.op = "withdraw" /\ last.amount > 0 /\ OverdraftExceeded(last)
    /\ Len(history) > 0
    /\ balance - last.amount < -overdraft_limit

\* ---- C4 ------------------------------------------------------------------
\* C4: deposit and withdraw with amount <= 0 (zero included) raise the
\* invalid-amount ValueError and leave balance and history as they were.
C4_NonPositiveRejected ==
    [][((CallStep("deposit") \/ CallStep("withdraw")) /\ last'.amount <= 0) =>
         /\ InvalidArgument(last')
         /\ balance' = balance
         /\ history' = history
         /\ HistoryView' = HistoryView]_vars

\* A deposit of zero was rejected on an account that has a history.
C4_Witness ==
    /\ last.op = "deposit" /\ last.amount = 0 /\ InvalidArgument(last)
    /\ Len(history) > 0

\* ---- C5 ------------------------------------------------------------------
\* C5: a deposit(amount) with amount > 0 raises the balance by exactly
\* amount, appends exactly one entry of type "deposit" with that amount and
\* the new balance, and returns the new balance.
C5_DepositEffect ==
    [][(CallStep("deposit") /\ last'.amount > 0) =>
         /\ last'.outcome = "ok"
         /\ balance' = balance + last'.amount
         /\ last'.ret = balance'
         /\ Len(HistoryView') = Len(HistoryView) + 1
         /\ IsPrefix(HistoryView, HistoryView')
         /\ LastEntry(HistoryView').type = "deposit"
         /\ LastEntry(HistoryView').amount = last'.amount
         /\ LastEntry(HistoryView').resulting_balance = balance']_vars

\* A deposit returned on an account that already had an entry.
C5_Witness ==
    /\ last.op = "deposit" /\ last.outcome = "ok"
    /\ Len(history) >= 2
    /\ LastEntry(HistoryView).type = "deposit"

\* ---- C6 ------------------------------------------------------------------
\* C6: create with a negative initial balance raises the invalid-argument
\* ValueError and creates no account; with a positive one the account has
\* that balance and a history of exactly one "initial deposit" entry whose
\* amount and resulting balance are the initial balance; with zero the
\* history is empty.
C6_CreateEffect ==
    [][CallStep("create") =>
         /\ last'.amount < 0 =>
              /\ InvalidArgument(last')
              /\ ~created'
              /\ UNCHANGED acct
         /\ last'.amount >= 0 =>
              /\ last'.outcome = "ok"
              /\ created'
              /\ balance' = last'.amount
         /\ last'.amount > 0 =>
              HistoryView' = <<[type |-> "initial deposit",
                                amount |-> last'.amount,
                                timestamp |-> clock,
                                resulting_balance |-> last'.amount]>>
         /\ last'.amount = 0 => HistoryView' = <<>>]_vars

\* An account created with a positive initial balance.
C6_Witness ==
    /\ last.op = "create" /\ last.outcome = "ok" /\ last.amount > 0
    /\ Len(history) = 1

\* ---- C7 ------------------------------------------------------------------
\* C7: the history length is 1 if the initial balance was positive (else 0)
\* plus the number of deposit and withdraw calls that returned normally, and
\* transaction_count returns that length.
ExpectedCount == (IF created /\ initial > 0 THEN 1 ELSE 0) + succeeded

C7_HistoryLength ==
    /\ Len(history) = ExpectedCount
    /\ last.op = "transaction_count" => last.ret = ExpectedCount

\* transaction_count was called on an account with an initial deposit and
\* two calls that returned normally.
C7_Witness ==
    /\ last.op = "transaction_count"
    /\ initial > 0
    /\ succeeded >= 2

\* ---- C8 ------------------------------------------------------------------
\* C8: the history is append-only: across every step the history before is
\* a prefix of the history after.
C8_AppendOnly == [][IsPrefix(HistoryView, HistoryView')]_vars

\* A history that has grown twice.
C8_Witness ==
    /\ Len(history) >= 3
    /\ last.outcome = "ok" /\ last.op \in {"deposit", "withdraw"}

\* ---- C9 ------------------------------------------------------------------
\* C9: every history entry has one of the three types and a strictly
\* positive amount; the entry a call appends has the type of that call, the
\* call's amount, and the balance right after the call as resulting balance.
TypeOf(op) ==
    CASE op = "create" -> "initial deposit"
      [] op = "deposit" -> "deposit"
      [] op = "withdraw" -> "withdrawal"

EntryWellFormed(e) ==
    /\ e.type \in {"initial deposit", "deposit", "withdrawal"}
    /\ e.amount > 0

C9_Entries ==
    /\ [](\A i \in 1..Len(history) : EntryWellFormed(HistoryView[i]))
    /\ [][(/\ last' /= last
           /\ last'.op \in {"create", "deposit", "withdraw"}
           /\ Len(history') > Len(history)) =>
            /\ LastEntry(HistoryView').type = TypeOf(last'.op)
            /\ LastEntry(HistoryView').amount = last'.amount
            /\ LastEntry(HistoryView').resulting_balance = balance']_vars

\* A withdrawal entry whose amount differs from its resulting balance.
C9_Witness ==
    /\ Len(history) >= 2
    /\ LastEntry(HistoryView).type = "withdrawal"
    /\ LastEntry(HistoryView).amount /= LastEntry(HistoryView).resulting_balance

\* ---- C10 -----------------------------------------------------------------
\* C10: nothing the caller does to the list returned by
\* get_transaction_history (removing or adding entries, changing the fields
\* of an entry) changes the account's own history.
CallerOps == {"caller_remove", "caller_append", "caller_set_amount"}

C10_DefensiveCopy ==
    [][last'.op \in CallerOps =>
         /\ history' = history
         /\ HistoryView' = HistoryView]_vars

\* ---- C11 -----------------------------------------------------------------
\* C11: started from the same balance and overdraft limit and fed the same
\* amounts, the stateless functions and the account accept or reject every
\* step alike (same error, same returned balance) and hold the same balance.
C11_Equivalence ==
    /\ created => sim_balance = balance
    /\ last.op \in {"deposit", "withdraw"} =>
         /\ flast.op = "fn_" \o last.op
         /\ flast.amount = last.amount
         /\ flast.outcome = last.outcome
         /\ flast.msg = last.msg
         /\ flast.ret = last.ret

\* A third step, accepted on both sides, left both overdrawn.
C11_Witness ==
    /\ Len(history) >= 3
    /\ last.op = "withdraw" /\ last.outcome = "ok"
    /\ flast.outcome = "ok"
    /\ sim_balance < 0

\* ---- C12 -----------------------------------------------------------------
\* C12: deposit(balance, amount) with amount > 0 returns balance + amount, an
\* admissible withdraw(balance, amount, limit) returns balance - amount,
\* get_balance(balance) returns balance; a call changes neither the balance
\* and limit the caller holds nor anything else.
C12_PureFunctions ==
    [][flast' /= flast =>
         /\ (flast'.op = "fn_deposit" /\ flast'.amount > 0) =>
              /\ flast'.outcome = "ok"
              /\ flast'.ret = sim_balance + flast'.amount
         /\ (/\ flast'.op = "fn_withdraw"
             /\ flast'.amount > 0
             /\ sim_balance - flast'.amount >= -sim_overdraft_limit) =>
              /\ flast'.outcome = "ok"
              /\ flast'.ret = sim_balance - flast'.amount
         /\ flast'.op = "fn_get_balance" =>
              /\ flast'.outcome = "ok"
              /\ flast'.ret = sim_balance
         /\ sim_balance' = sim_balance
         /\ sim_overdraft_limit' = sim_overdraft_limit
         /\ UNCHANGED <<acct, returned, last>>]_vars

\* A withdrawal down to exactly the limit was returned.
C12_Witness ==
    /\ flast.op = "fn_withdraw" /\ flast.outcome = "ok"
    /\ flast.limit > 0
    /\ flast.ret = -flast.limit
    /\ sim_balance = flast.balance

\* ---- C13 -----------------------------------------------------------------
\* C13: the stateless withdraw raises the invalid-amount ValueError for
\* amount <= 0 and the overdraft ValueError when balance - amount is below
\* -limit, returning nothing; with the limit omitted the limit is 0, so any
\* withdrawal below zero is rejected; deposit raises for amount <= 0.
C13_StatelessErrors ==
    /\ flast.op \in {"fn_withdraw", "fn_withdraw_default", "fn_deposit"} =>
         (flast.amount <= 0 =>
            InvalidArgument(flast) /\ flast.ret = None)
    /\ flast.op = "fn_withdraw" =>
         ((flast.amount > 0 /\ flast.balance - flast.amount < -flast.limit) =>
            OverdraftExceeded(flast) /\ flast.ret = None)
    /\ flast.op = "fn_withdraw_default" =>
         /\ flast.limit = 0
         /\ (flast.amount > 0 /\ flast.balance - flast.amount < 0) =>
              OverdraftExceeded(flast) /\ flast.ret = None

\* A withdrawal without a limit that would go below zero was rejected.
C13_Witness ==
    /\ flast.op = "fn_withdraw_default"
    /\ flast.amount > 0
    /\ flast.balance >= 0
    /\ flast.balance - flast.amount < 0
    /\ OverdraftExceeded(flast)

\* ---- C14 -----------------------------------------------------------------
\* C14: the account's overdraft limit is max(0, the limit given at creation):
\* never negative, also when a negative limit was given.
C14_LimitClamped ==
    /\ [](overdraft_limit >= 0)
    /\ [][(CallStep("create") /\ last'.outcome = "ok") =>
            overdraft_limit' = (IF last'.limit < 0 THEN 0 ELSE last'.limit)]_vars

\* An account was created with a negative limit.
C14_Witness ==
    /\ created
    /\ last.op = "create" /\ last.outcome = "ok" /\ last.limit < 0
    /\ overdraft_limit = 0

\* ---- C15 -----------------------------------------------------------------
\* C15: once the account is created, no call, successful or failed, changes
\* its overdraft limit.
C15_LimitImmutable == [][created => overdraft_limit' = overdraft_limit]_vars

\* A withdrawal into the overdraft returned and the limit is still positive.
C15_Witness ==
    /\ created /\ overdraft_limit > 0
    /\ last.op = "withdraw" /\ last.outcome = "ok"
    /\ balance < 0

\* ---- C16 -----------------------------------------------------------------
\* C16: get_balance, get_transaction_history and transaction_count change
\* neither balance, overdraft limit nor history, and a getter called again
\* with no other call in between returns the same result.
Getters == {"get_balance", "get_transaction_history", "transaction_count"}

\* What the caller reads in the list get_transaction_history returned.
ReturnedView == [i \in 1..Len(returned) |-> txns[returned[i]]]

C16_GettersIdempotent ==
    [][/\ (last' /= last /\ last'.op \in Getters) =>
            /\ UNCHANGED <<created, balance, overdraft_limit, history, txns>>
            /\ HistoryView' = HistoryView
            /\ last'.op = "get_balance" => last'.ret = balance
            /\ last'.op = "transaction_count" => last'.ret = Len(history)
            /\ last'.op = "get_transaction_history" => ReturnedView' = HistoryView
       /\ (last.op \in Getters /\ last'.op = last.op) =>
            /\ last'.ret = last.ret
            /\ last.op = "get_transaction_history" => ReturnedView' = ReturnedView]_vars

\* The history of an account with several entries was read.
C16_Witness ==
    /\ last.op = "get_transaction_history"
    /\ Len(returned) >= 2
    /\ ReturnedView = HistoryView

\* ---- C17 -----------------------------------------------------------------
\* C17: across the history every entry's timestamp is at least the timestamp
\* of the entry before it.
Monotone ==
    \A i \in 1..(Len(history) - 1) :
        HistoryView[i].timestamp <= HistoryView[i + 1].timestamp

C17_TimestampsMonotone == Monotone

\* C17 as amended: timestamps are non-decreasing across the history as long
\* as the host's wall clock has not been set backwards.
C17_MonotoneWhileClockIs == ~clock_stepped_back => Monotone

\* Two entries recorded at different instants of a clock that only advanced.
C17_Witness ==
    /\ ~clock_stepped_back
    /\ Len(history) >= 2
    /\ HistoryView[1].timestamp < HistoryView[2].timestamp

\* ---- C18 -----------------------------------------------------------------
\* C18: after switch_mode the overdraft limit in force in the new mode is the
\* one that was in force in the old mode.
LimitInForce ==
    IF current_mode = "stateful" THEN overdraft_limit ELSE sim_overdraft_limit

C18_SwitchKeepsLimit ==
    [][(/\ current_mode' /= current_mode
        /\ current_mode = "stateful" => created) =>
          LimitInForce' = LimitInForce]_vars

\* ---- C19 -----------------------------------------------------------------
\* C19: whenever switch_mode changes the mode, the balance in force in the
\* new mode is the balance that was in force in the old mode (0 for a
\* stateful mode without account).
BalanceInForce ==
    IF current_mode = "stateful"
    THEN (IF created THEN balance ELSE 0)
    ELSE sim_balance

C19_SwitchKeepsBalance ==
    [][current_mode' /= current_mode => BalanceInForce' = BalanceInForce]_vars

\* The shell has just left the stateful mode with a balance that is not zero.
C19_Witness ==
    /\ current_mode = "stateless"
    /\ last.op = "get_balance"
    /\ sim_balance /= 0
    /\ sim_balance = balance

\* ---- C20 -----------------------------------------------------------------
\* C20: in every reachable state of the shell the overdraft limit it passes
\* to the stateless withdraw is not negative.
C20_LimitPassedNonNegative ==
    flast.op = "fn_withdraw" => flast.limit >= 0

\* ---- C21 -----------------------------------------------------------------
\* C21: from every reachable state of the CLI shell, switch_mode raises no
\* error, leaves the menu loop running and toggles current_mode.
C21_SwitchNeverRaises ==
    [][SwitchMode => /\ last'.outcome = "ok"
                     /\ pc' = "menu"
                     /\ current_mode' /= current_mode]_vars

\* ---- C22 -----------------------------------------------------------------
\* C22: in every reachable state of the CLI shell in stateless mode the
\* carried balance is at least minus the carried overdraft limit.
C22_StatelessBalanceAboveLimit ==
    current_mode = "stateless" => sim_balance >= -sim_overdraft_limit

\* ---- C23 -----------------------------------------------------------------
\* C23: in every reachable state of an account the balance is the sum of the
\* amounts of its "initial deposit" and "deposit" entries minus the sum of
\* the amounts of its "withdrawal" entries, and the last entry of a
\* non-empty history carries the current balance as its resulting balance.
SignedAmount(e) ==
    IF e.type \in {"initial deposit", "deposit"} THEN e.amount
    ELSE IF e.type = "withdrawal" THEN -e.amount
    ELSE 0

RECURSIVE NetOfHistory(_)
NetOfHistory(h) ==
    IF Len(h) = 0 THEN 0
    ELSE NetOfHistory(SubSeq(h, 1, Len(h) - 1)) + SignedAmount(LastEntry(h))

C26_DepositStep ==
    (CallStep("deposit") /\ last'.amount > 0) =>
        /\ last'.outcome = "ok"
        /\ last'.ret = balance + last'.amount
        /\ balance' = last'.ret
        /\ HistoryView' = Append(HistoryView, LastEntry(HistoryView'))
        /\ LastEntry(HistoryView').type = "deposit"
        /\ LastEntry(HistoryView').amount = last'.amount

C26_WithdrawStep ==
    (/\ last.op = "deposit" /\ last.outcome = "ok"
     /\ CallStep("withdraw") /\ last'.amount = last.amount) =>
        /\ last'.outcome = "ok"
        /\ balance' = last.ret - last.amount
        /\ last'.ret = balance'
        /\ HistoryView' = Append(HistoryView, LastEntry(HistoryView'))
        /\ LastEntry(HistoryView).type = "deposit"
        /\ LastEntry(HistoryView).amount = last.amount
        /\ LastEntry(HistoryView').type = "withdrawal"
        /\ LastEntry(HistoryView').amount = last.amount

C27_InitialOnlyFirst ==
    \A i \in 1..Len(history) :
        HistoryView[i].type = "initial deposit" => i = 1

C27_CallsRecordNoInitial ==
    (CallStep("deposit") \/ CallStep("withdraw")) =>
        \A i \in (Len(history) + 1)..Len(history') :
            HistoryView'[i].type /= "initial deposit"

C27_InitialDepositOnce ==
    []C27_InitialOnlyFirst /\ [][C27_CallsRecordNoInitial]_vars

\* An account opened with zero, so without "initial deposit" entry, whose
\* first entry is the deposit just made.
C27_Witness ==
    /\ created /\ initial = 0
    /\ Len(history) = 1
    /\ last.op = "deposit" /\ last.outcome = "ok"
    /\ HistoryView[1].type = "deposit"

\* ---- C24 -----------------------------------------------------------------
\* C24: in the CLI and in the GUI, while the mode is stateful and no account
\* has been created, the handlers for deposit, withdrawal, balance and
\* history change nothing of the shell or the core and make no call (they
\* only tell the user to create an account); and in every reachable state
\* in which a handler has called a method of the account, the account
\* exists.
AccountMethods ==
    {"deposit", "withdraw", "get_balance", "get_transaction_history"}

GuardedHandlers ==
    \/ ShellMakeDeposit
    \/ ShellMakeWithdrawal
    \/ ShellCheckBalance
    \/ ShellViewTransactionHistory
    \/ GuiMakeDeposit
    \/ GuiMakeWithdrawal
    \/ GuiCheckBalance
    \/ GuiRefreshHistory

C24_NoAccountNoEffect ==
    (current_mode = "stateful" /\ ~created /\ GuardedHandlers) =>
        /\ UNCHANGED <<acct, clock, returned, initial, succeeded, current_mode,
                       sim_balance, sim_overdraft_limit, pc, account_status>>
        /\ last' = Refused
        /\ flast' = FnNoCall

C24_CallsHaveAccount == last.op \in AccountMethods => created

C25_RejectedLeavesShell ==
    [][(/\ current_mode = "stateless"
        /\ flast'.op \in {"fn_deposit", "fn_withdraw"}
        /\ flast'.outcome = "ValueError") =>
          /\ InvalidArgument(flast') \/ OverdraftExceeded(flast')
          /\ UNCHANGED <<sim_balance, sim_overdraft_limit, current_mode>>]_vars

\* The GUI's stateless mode has just refused a withdrawal from an overdrawn
\* balance.
C25_Witness ==
    /\ IsGui
    /\ current_mode = "stateless"
    /\ flast.op = "fn_withdraw"
    /\ OverdraftExceeded(flast)
    /\ sim_balance < 0
    /\ sim_balance - flast.amount < -sim_overdraft_limit

====
